---- MODULE Spec2Model ----
(***************************************************************************)
(* Sentora central server (src/server.py): ingestion of metric snapshots,  *)
(* threshold evaluation, alert records, and the periodic liveness sweep    *)
(* with its Redis suppression flag.                                         *)
(*                                                                          *)
(* Conventions.  Time is in whole seconds.  An Optional[...] value is a    *)
(* sequence: <<>> is None, <<v>> is the value v.  A Python dict is a       *)
(* sequence of <<key, value>> pairs in insertion order, with distinct      *)
(* keys; the ssh_brute_force dict, whose keys are fixed, is a function.    *)
(***************************************************************************)
EXTENDS Integers, Sequences, FiniteSets, TLC

(***************************************************************************)
(* Bounds of the model.                                                     *)
(***************************************************************************)
BootTime == 1000        \* wall-clock reading (s) when the server starts
MaxTime == 5208         \* the clock stops here
MaxAlerts == 3          \* alert records a sweep may still add to
MaxSubmits == 2         \* snapshots accepted by POST /data
MaxDict == 2            \* entries of a disk_usage / services dict
EarlyRun == 1202        \* seconds of clock the concurrent runs cover

(***************************************************************************)
(* Program constants.                                                       *)
(***************************************************************************)
InactiveAfter == 600            \* timedelta(minutes=10)
SuppressionTTL == 3600          \* redis_client.set(..., ex=3600)
DefaultCpuThreshold == 80       \* AlertConfig.cpu_threshold
DefaultRamThreshold == 85       \* AlertConfig.ram_threshold
DefaultDiskThreshold == 90      \* AlertConfig.disk_threshold

Agents == {"a1", "a2"}
Hostnames == {"h1"}
Workers == {"w1", "w2"}
Paths == {"/data", "/backup"}
Services == {"nginx", "sshd"}
Statuses == {"active", "inactive"}
TickSteps == {600, 601}

(***************************************************************************)
(* Optional values and dicts.                                               *)
(***************************************************************************)
None == <<>>
Some(v) == <<v>>
IsNone(o) == o = <<>>
Val(o) == o[1]

\* dict.get(key, default) on a dict with fixed string keys
DictGet(d, k, default) == IF k \in DOMAIN d THEN d[k] ELSE default

\* all dicts (insertion-ordered, distinct keys) of at most n entries
DictsOver(K, V, n) ==
    {s \in UNION {[1..k -> K \X V] : k \in 0..n} :
        \A i, j \in 1..Len(s) : s[i][1] = s[j][1] => i = j}

(***************************************************************************)
(* datetime.isoformat(): a fixed-width string, compared as a string.       *)
(***************************************************************************)
IsoFormat(t) ==
    <<(t \div 1000) % 10, (t \div 100) % 10, (t \div 10) % 10, t % 10>>

\* Python's str "<": lexicographic, a proper prefix is smaller
RECURSIVE StrLess(_, _)
StrLess(s, t) ==
    IF t = <<>> THEN FALSE
    ELSE IF s = <<>> THEN TRUE
    ELSE IF Head(s) # Head(t) THEN Head(s) < Head(t)
    ELSE StrLess(Tail(s), Tail(t))

(***************************************************************************)
(* AlertConfig and its defaults.                                            *)
(***************************************************************************)
AlertConfig(cpu, ram, disk, svc, ssh) ==
    [cpu_threshold |-> cpu, ram_threshold |-> ram, disk_threshold |-> disk,
     service_alerts |-> svc, ssh_brute_force_alerts |-> ssh]

DefaultAlertConfig ==
    AlertConfig(DefaultCpuThreshold, DefaultRamThreshold, DefaultDiskThreshold,
                TRUE, TRUE)

NoDoc == [exists |-> FALSE, hostname |-> "", last_seen |-> <<>>,
          alert_config |-> None]

VARIABLES
    now,                 \* wall clock, datetime.now()
    agents_collection,   \* db["agents"]: name -> document
    alerts_collection,   \* db["alerts"]: documents in insertion order
    metrics_collection,  \* db["metrics"]: number of stored snapshots
    redis_client,        \* agent name -> expiry of agent_inactive:{name}, or -1
    tasks,               \* background tasks added by receive_metrics
    check_run,           \* the last check_thresholds run: input and outcome
    pc,                  \* per Celery worker: place in check_agent_status
    threshold,           \* per Celery worker: the local threshold (0 once dead)
    inactive_agents,     \* per Celery worker: the list find() returned
    idx,                 \* per Celery worker: position of the for loop in it
    ALERT_ENABLED,       \* ALERT_EMAIL_ENABLED, ALERT_TELEGRAM_ENABLED, ...
    channel,             \* per channel: how its remote end behaves
    send,                \* the send_alert call under way, or the last one
    response,            \* the last HTTP response of the API
    x_api_key,           \* the X-API-Key header of the last request (Optional)
    agent                \* the monitoring agent process: its place in run()

sweep == <<pc, threshold, inactive_agents, idx>>

dispatch == <<ALERT_ENABLED, channel, send>>

client == <<x_api_key, agent>>

vars == <<now, agents_collection, alerts_collection, metrics_collection,
          redis_client, tasks, check_run, pc, threshold, inactive_agents, idx,
          ALERT_ENABLED, channel, send, response, x_api_key, agent>>

(***************************************************************************)
(* Documents.                                                               *)
(***************************************************************************)
\* bson ObjectId assigned by insert_one, and str() of it
ObjectId(n) == [oid |-> n]
ObjectIdStr(id) == id.oid

Message(subject, text, value, limit) ==
    [subject |-> subject, text |-> text, value |-> value, limit |-> limit]

AlertDoc_acknowledged(n, alert_type, agent_name, hostname, message, t) ==
    [_id |-> ObjectId(n), agent_name |-> agent_name, hostname |-> hostname,
     alert_type |-> alert_type, message |-> message,
     timestamp |-> IsoFormat(t), acknowledged |-> TRUE]

\* the document send_alert inserts into db["alerts"] as the n-th document
AlertDoc(n, alert_type, agent_name, hostname, message, t) ==
    [_id |-> ObjectId(n), agent_name |-> agent_name, hostname |-> hostname,
     alert_type |-> alert_type, message |-> message,
     timestamp |-> IsoFormat(t), acknowledged |-> FALSE]

\* AlertConfig(**agent_config["alert_config"]): absent fields take the defaults
AlertConfigFrom(stored) ==
    [f \in DOMAIN DefaultAlertConfig |-> DictGet(stored, f, DefaultAlertConfig[f])]

EffectiveConfig_alwaysDefault(agents, agent_name) == DefaultAlertConfig

\* lines 247-252 of check_thresholds: the policy the comparisons use
EffectiveConfig(agents, agent_name) ==
    LET agent_config == agents[agent_name] IN
    IF agent_config.exists /\ ~IsNone(agent_config.alert_config)
    THEN AlertConfigFrom(Val(agent_config.alert_config))
    ELSE DefaultAlertConfig

(***************************************************************************)
(* HTTP responses, and the notification channels.                           *)
(***************************************************************************)
\* what the client of the API gets back: the handler, the source or alert
\* the request named, and the status code (200, 404, or 500 for an exception)
Response(op, agent_name, alert_id, status_code) ==
    [op |-> op, agent_name |-> agent_name, alert_id |-> alert_id,
     status_code |-> status_code]

NoResponse == Response("", "", 0, 0)

\* os.getenv("API_KEYS", "your_api_key_here").split(",")
API_KEYS == {"your_api_key_here"}

verify_api_key_acceptsAll(key) == TRUE

\* verify_api_key: the key passes (otherwise HTTPException 401 is raised)
verify_api_key(key) == key \in API_KEYS

\* the request comes from a client that holds a key of API_KEYS
ValidKeySent == \E key \in API_KEYS : x_api_key' = Some(key)

\* the agent process before run() is called
IdleAgent ==
    [pc |-> "idle", server_url |-> Some("url"),
     api_key |-> "your_api_key_here", interval |-> 60, metrics |-> None,
     seq |-> 0, posts |-> 0, sent_seq |-> 0, result |-> "none", rc |-> -1,
     cause |-> ""]

\* the channels, in the order in which send_alert goes through them
Channels == <<"email", "telegram", "discord">>
ChannelSet == {Channels[i] : i \in 1..Len(Channels)}

\* no send_alert call has been made yet
IdleSend ==
    [status |-> "idle", pos |-> 0, alert_type |-> "", agent_name |-> "",
     hostname |-> "", alert_id |-> 0,
     attempts |-> [c \in ChannelSet |-> 0],
     results |-> [c \in ChannelSet |-> "none"],
     return_value |-> None]

\* os.getenv("ALERT_..._ENABLED", "false"): without configuration every
\* channel is disabled, and send_alert is its insert_one
ChannelsDisabled ==
    /\ ALERT_ENABLED = [c \in ChannelSet |-> FALSE]
    /\ channel = [c \in ChannelSet |-> "up"]
    /\ send = IdleSend

(***************************************************************************)
(* check_thresholds: the send_alert calls it makes, in program order.      *)
(* A call is [alert_type, message, key]; key is the path or service that   *)
(* alerts_sent records with the alert ("" for the per-source kinds).        *)
(***************************************************************************)
Call(alert_type, message, key) ==
    [alert_type |-> alert_type, message |-> message, key |-> key]

Exceeds_orEqual(usage, limit) == usage >= limit

Exceeds(usage, limit) == usage > limit

CpuCalls_absentAlerts(metrics, alert_config) ==
    IF IsNone(metrics.cpu_usage)
       \/ Exceeds(Val(metrics.cpu_usage), alert_config.cpu_threshold)
    THEN <<Call("CPU_HIGH",
                Message("", "",
                        IF IsNone(metrics.cpu_usage) THEN 0 ELSE Val(metrics.cpu_usage),
                        alert_config.cpu_threshold),
                "")>>
    ELSE <<>>

CpuCalls(metrics, alert_config) ==
    IF ~IsNone(metrics.cpu_usage)
       /\ Exceeds(Val(metrics.cpu_usage), alert_config.cpu_threshold)
    THEN <<Call("CPU_HIGH",
                Message("", "", Val(metrics.cpu_usage), alert_config.cpu_threshold),
                "")>>
    ELSE <<>>

RamCalls(metrics, alert_config) ==
    IF ~IsNone(metrics.ram_usage)
       /\ Exceeds(Val(metrics.ram_usage), alert_config.ram_threshold)
    THEN <<Call("RAM_HIGH",
                Message("", "", Val(metrics.ram_usage), alert_config.ram_threshold),
                "")>>
    ELSE <<>>

\* for path, usage in metrics.disk_usage.items()
RECURSIVE DiskLoop(_, _)
DiskLoop(items, alert_config) ==
    IF items = <<>> THEN <<>>
    ELSE LET path == Head(items)[1]
             usage == Head(items)[2]
         IN (IF Exceeds(usage, alert_config.disk_threshold)
             THEN <<Call("DISK_HIGH",
                         Message(path, "", usage, alert_config.disk_threshold),
                         path)>>
             ELSE <<>>)
            \o DiskLoop(Tail(items), alert_config)

DiskCalls_perSource(metrics, alert_config) ==
    IF ~IsNone(metrics.disk_usage)
    THEN LET calls == DiskLoop(Val(metrics.disk_usage), alert_config)
         IN IF calls = <<>> THEN <<>> ELSE <<Head(calls)>>
    ELSE <<>>

DiskCalls(metrics, alert_config) ==
    IF ~IsNone(metrics.disk_usage)
    THEN DiskLoop(Val(metrics.disk_usage), alert_config)
    ELSE <<>>

\* for service, status in metrics.services.items()
RECURSIVE ServiceLoop(_)
ServiceLoop(items) ==
    IF items = <<>> THEN <<>>
    ELSE LET service == Head(items)[1]
             status == Head(items)[2]
         IN (IF status # "active"
             THEN <<Call("SERVICE_DOWN", Message(service, status, 0, 0), service)>>
             ELSE <<>>)
            \o ServiceLoop(Tail(items))

ServiceCalls_ungated(metrics, alert_config) ==
    IF ~IsNone(metrics.services)
    THEN ServiceLoop(Val(metrics.services))
    ELSE <<>>

ServiceCalls(metrics, alert_config) ==
    IF alert_config.service_alerts /\ ~IsNone(metrics.services)
    THEN ServiceLoop(Val(metrics.services))
    ELSE <<>>

SshCalls_defaultTrue(metrics, alert_config) ==
    IF alert_config.ssh_brute_force_alerts /\ ~IsNone(metrics.ssh_brute_force)
    THEN IF DictGet(Val(metrics.ssh_brute_force), "threshold_exceeded", TRUE)
         THEN <<Call("SSH_BRUTE_FORCE",
                     Message("", "",
                             DictGet(Val(metrics.ssh_brute_force), "failed_attempts", 0),
                             0),
                     "")>>
         ELSE <<>>
    ELSE <<>>

SshCalls(metrics, alert_config) ==
    IF alert_config.ssh_brute_force_alerts /\ ~IsNone(metrics.ssh_brute_force)
    THEN IF DictGet(Val(metrics.ssh_brute_force), "threshold_exceeded", FALSE)
         THEN <<Call("SSH_BRUTE_FORCE",
                     Message("", "",
                             DictGet(Val(metrics.ssh_brute_force), "failed_attempts", 0),
                             0),
                     "")>>
         ELSE <<>>
    ELSE <<>>

ThresholdCalls(metrics, alert_config) ==
    CpuCalls(metrics, alert_config) \o RamCalls(metrics, alert_config)
    \o DiskCalls(metrics, alert_config) \o ServiceCalls(metrics, alert_config)
    \o SshCalls(metrics, alert_config)

\* the documents the first k calls insert after the n documents already there
InsertedDocs(calls, k, n, agent_name, hostname, t) ==
    [i \in 1..k |-> AlertDoc(n + i, calls[i].alert_type, agent_name, hostname,
                             calls[i].message, t)]

\* the alerts_sent list after the first k calls
AlertsSent(calls, k, n) ==
    [i \in 1..k |-> [type |-> calls[i].alert_type, id |-> ObjectIdStr(ObjectId(n + i)),
                     key |-> calls[i].key]]

RemoveAt(s, i) == SubSeq(s, 1, i - 1) \o SubSeq(s, i + 1, Len(s))

(***************************************************************************)
(* The background task check_thresholds(metrics), the i-th pending one.    *)
(* It performs 1 + Len(calls) store operations (find_one, then one         *)
(* insert_one per send_alert); ok_ops of them succeed before one raises.   *)
(* A raise ends the task: the documents inserted so far stay.               *)
(***************************************************************************)
check_thresholds(i, ok_ops) ==
    LET metrics == tasks[i]
        alert_config == EffectiveConfig(agents_collection, metrics.agent_name)
        calls == ThresholdCalls(metrics, alert_config)
        n == Len(alerts_collection)
        k == IF ok_ops = 0 THEN 0 ELSE ok_ops - 1
    IN /\ ok_ops \in 0..(1 + Len(calls))
       /\ alerts_collection' = alerts_collection
              \o InsertedDocs(calls, k, n, metrics.agent_name, metrics.hostname, now)
       /\ check_run' = [metrics |-> Some(metrics),
                        status |-> IF ok_ops = 1 + Len(calls) THEN "returned"
                                   ELSE "raised",
                        alerts_sent |-> AlertsSent(calls, k, n)]
       /\ tasks' = RemoveAt(tasks, i)
       /\ UNCHANGED <<client, dispatch, response, now, agents_collection, metrics_collection, redis_client,
                      sweep>>

CheckThresholdsTask ==
    \E i \in 1..Len(tasks) : \E ok_ops \in 0..(2 * MaxDict + 4) :
        check_thresholds(i, ok_ops)

(***************************************************************************)
(* Inputs.                                                                  *)
(***************************************************************************)
CpuInputs == {None, Some(80), Some(92)}
RamInputs == {None, Some(85), Some(90)}
DiskUsages == {40, 90, 95}
DiskInputs == {None} \cup {Some(d) : d \in DictsOver(Paths, DiskUsages, MaxDict)}
ServiceInputs == {None} \cup {Some(d) : d \in DictsOver(Services, Statuses, MaxDict)}
SshInputs ==
    {None, Some(<<>>),
     Some([failed_attempts |-> 7, threshold_exceeded |-> TRUE]),
     Some([failed_attempts |-> 7, threshold_exceeded |-> FALSE]),
     Some([failed_attempts |-> 7])}

MetricsData(agent_name, hostname, cpu, ram, disk, services, ssh) ==
    [agent_name |-> agent_name, hostname |-> hostname, cpu_usage |-> cpu,
     ram_usage |-> ram, disk_usage |-> disk, services |-> services,
     ssh_brute_force |-> ssh]

\* what POST /agent/{name}/config can have stored: config.dict() is complete
StoredConfigs ==
    {AlertConfig(t[1], t[2], t[3], svc, ssh) :
        t \in {<<92, 90, 95>>, <<50, 50, 30>>},
        svc \in BOOLEAN, ssh \in BOOLEAN}

InitialRun == [metrics |-> None, status |-> "none", alerts_sent |-> <<>>]

(***************************************************************************)
(* Evaluation of one snapshot: the state in which one accepted snapshot of *)
(* a registered agent waits for its background task.                        *)
(***************************************************************************)
InitEval ==
    /\ now = BootTime
    /\ \E cfg \in {None} \cup {Some(c) : c \in StoredConfigs} :
         agents_collection =
            [a \in Agents |->
                IF a = "a1"
                THEN [exists |-> TRUE, hostname |-> "h1",
                      last_seen |-> IsoFormat(BootTime), alert_config |-> cfg]
                ELSE NoDoc]
    /\ alerts_collection = <<>>
    /\ metrics_collection = 1
    /\ redis_client = [a \in Agents |-> -1]
    /\ \E cpu \in CpuInputs, ram \in RamInputs, disk \in DiskInputs,
          services \in ServiceInputs, ssh \in SshInputs :
         tasks = <<MetricsData("a1", "h1", cpu, ram, disk, services, ssh)>>
    /\ check_run = InitialRun
    /\ pc = [w \in Workers |-> "idle"]
    /\ threshold = [w \in Workers |-> 0]
    /\ inactive_agents = [w \in Workers |-> <<>>]
    /\ idx = [w \in Workers |-> 0]
    /\ ChannelsDisabled
    /\ response = Response("receive_metrics", "a1", 0, 200)
    /\ x_api_key = Some("your_api_key_here")
    /\ agent = IdleAgent

NextEval == CheckThresholdsTask

EvalSpec == InitEval /\ [][NextEval]_vars

(***************************************************************************)
(* The clock.                                                               *)
(***************************************************************************)
TickUntil(limit) ==
    /\ \E d \in TickSteps : now + d <= limit /\ now' = now + d
    /\ UNCHANGED <<client, dispatch, response, agents_collection, alerts_collection,
                   metrics_collection, redis_client, tasks, check_run, sweep>>

(***************************************************************************)
(* POST /data.  outcome: "ok", or the store call that raises.               *)
(***************************************************************************)
Upsert_resetsConfig(agents, agent_name, hostname, t) ==
    [agents EXCEPT ![agent_name] =
        [exists |-> TRUE, hostname |-> hostname, last_seen |-> IsoFormat(t),
         alert_config |-> None]]

Upsert_keepsLastSeen(agents, agent_name, hostname, t) ==
    [agents EXCEPT ![agent_name] =
        [exists |-> TRUE, hostname |-> hostname,
         last_seen |-> IF agents[agent_name].exists
                       THEN agents[agent_name].last_seen ELSE IsoFormat(t),
         alert_config |-> agents[agent_name].alert_config]]

\* update_one({"name": n}, {"$set": {name, hostname, last_seen}}, upsert=True)
Upsert(agents, agent_name, hostname, t) ==
    [agents EXCEPT ![agent_name] =
        [exists |-> TRUE, hostname |-> hostname, last_seen |-> IsoFormat(t),
         alert_config |-> agents[agent_name].alert_config]]

receive_metrics(metrics, outcome) ==
    /\ metrics_collection < MaxSubmits
    /\ metrics_collection' =
          IF outcome = "insert_raises" THEN metrics_collection
          ELSE metrics_collection + 1
    /\ agents_collection' =
          IF outcome = "ok"
          THEN Upsert(agents_collection, metrics.agent_name, metrics.hostname, now)
          ELSE agents_collection
    /\ tasks' = IF outcome = "ok" THEN Append(tasks, metrics) ELSE tasks
    /\ response' = Response("receive_metrics", metrics.agent_name, 0,
                            IF outcome = "ok" THEN 200 ELSE 500)
    /\ UNCHANGED <<dispatch, now, alerts_collection, redis_client, check_run,
                   sweep>>

\* the snapshots of agent a with nothing over a threshold, and with the CPU at 92
QuietSnapshots(a) ==
    {MetricsData(a, h, None, None, None, None, None) : h \in Hostnames}

BusySnapshots(a) ==
    {MetricsData(a, h, Some(92), None, None, None, None) : h \in Hostnames}

ReceiveMetricsFrom(S) ==
    /\ \E metrics \in S :
          \E outcome \in {"ok", "insert_raises", "update_raises"} :
             receive_metrics(metrics, outcome)
    /\ ValidKeySent
    /\ UNCHANGED agent

(***************************************************************************)
(* POST /agent/{agent_name}/config.                                         *)
(***************************************************************************)
update_agent_config(agent_name, config) ==
    /\ IF agents_collection[agent_name].exists
       THEN /\ agents_collection' =
                  [agents_collection EXCEPT
                      ![agent_name].alert_config = Some(config)]
            /\ response' = Response("update_agent_config", agent_name, 0, 200)
       ELSE /\ agents_collection' = agents_collection
            /\ response' = Response("update_agent_config", agent_name, 0, 404)
    /\ UNCHANGED <<dispatch, now, alerts_collection, metrics_collection,
                   redis_client, tasks, check_run, sweep>>

SubmittedConfigs == {AlertConfig(95, 95, 95, FALSE, FALSE)}

UpdateAgentConfigOf(S) ==
    /\ \E agent_name \in S, config \in SubmittedConfigs :
          update_agent_config(agent_name, config)
    /\ ValidKeySent
    /\ UNCHANGED agent

(***************************************************************************)
(* The Celery task check_agent_status, run by worker w.                     *)
(*   idle -> find : threshold = datetime.now() - timedelta(minutes=10)     *)
(*   find -> get  : inactive_agents = list(agents_collection.find(...))    *)
(*   get  -> send : redis_client.get(alert_key) found nothing              *)
(*   send -> set  : send_alert inserted the record (the channels follow)   *)
(*   set  -> get  : redis_client.set(alert_key, "1", ex=3600)              *)
(* The task is over, and its locals are dead, when the loop is exhausted   *)
(* (idle) or a store call raises (failed); the next run starts from either.*)
(***************************************************************************)
IsSilent_orEqual(doc, thr) ==
    doc.exists /\ ~StrLess(IsoFormat(thr), doc.last_seen)

\* {"last_seen": {"$lt": threshold.isoformat()}}
IsSilent(doc, thr) == doc.exists /\ StrLess(doc.last_seen, IsoFormat(thr))

\* the orders in which find() may return the documents named in S
Listings(S) ==
    {s \in [1..Cardinality(S) -> S] : \A i, j \in 1..Len(s) : s[i] = s[j] => i = j}

AgentRow(agents, a) == [name |-> a, hostname |-> agents[a].hostname]

RedisGet_otherKey(redis, a, t) == FALSE

\* redis GET: the key exists and its TTL has not run out
RedisGet(redis, a, t) == redis[a] # -1 /\ t < redis[a]

RedisSet_noExpiry(redis, a, t) == [redis EXCEPT ![a] = 10 * MaxTime]

\* redis SET key "1" EX ttl
RedisSet(redis, a, t) == [redis EXCEPT ![a] = t + SuppressionTTL]

Agent(w) == inactive_agents[w][idx[w]]

TaskEnds(w, state) ==
    /\ pc' = [pc EXCEPT ![w] = state]
    /\ threshold' = [threshold EXCEPT ![w] = 0]
    /\ inactive_agents' = [inactive_agents EXCEPT ![w] = <<>>]
    /\ idx' = [idx EXCEPT ![w] = 0]

\* the for loop takes the next document, or ends
NextAgent(w) ==
    IF idx[w] < Len(inactive_agents[w])
    THEN /\ idx' = [idx EXCEPT ![w] = @ + 1]
         /\ pc' = [pc EXCEPT ![w] = "get"]
         /\ UNCHANGED <<threshold, inactive_agents>>
    ELSE TaskEnds(w, "idle")

SweepStart(w) ==
    /\ pc[w] \in {"idle", "failed"}
    /\ pc' = [pc EXCEPT ![w] = "find"]
    /\ threshold' = [threshold EXCEPT ![w] = now - InactiveAfter]
    /\ UNCHANGED <<client, dispatch, response, now, agents_collection, alerts_collection, metrics_collection,
                   redis_client, tasks, check_run, inactive_agents, idx>>

SweepFind(w) ==
    /\ pc[w] = "find"
    /\ \E rows \in Listings({a \in Agents :
                                IsSilent(agents_collection[a], threshold[w])}) :
          IF rows = <<>>
          THEN TaskEnds(w, "idle")
          ELSE /\ inactive_agents' =
                     [inactive_agents EXCEPT ![w] =
                         [i \in 1..Len(rows) |-> AgentRow(agents_collection, rows[i])]]
               /\ idx' = [idx EXCEPT ![w] = 1]
               /\ pc' = [pc EXCEPT ![w] = "get"]
               /\ threshold' = [threshold EXCEPT ![w] = 0]
    /\ UNCHANGED <<client, dispatch, response, now, agents_collection, alerts_collection, metrics_collection,
                   redis_client, tasks, check_run>>

\* agents_collection.find raises, and the exception ends the task
SweepFindRaises(w) ==
    /\ pc[w] = "find"
    /\ TaskEnds(w, "failed")
    /\ UNCHANGED <<client, dispatch, response, now, agents_collection, alerts_collection, metrics_collection,
                   redis_client, tasks, check_run>>

SweepGet(w) ==
    /\ pc[w] = "get"
    /\ IF RedisGet(redis_client, Agent(w).name, now)
       THEN NextAgent(w)
       ELSE /\ pc' = [pc EXCEPT ![w] = "send"]
            /\ UNCHANGED <<threshold, inactive_agents, idx>>
    /\ UNCHANGED <<client, dispatch, response, now, agents_collection, alerts_collection, metrics_collection,
                   redis_client, tasks, check_run>>

\* send_alert("AGENT_INACTIVE", ...): the insert succeeds
SweepSend(w) ==
    /\ pc[w] = "send"
    /\ Len(alerts_collection) < MaxAlerts
    /\ alerts_collection' =
          Append(alerts_collection,
                 AlertDoc(Len(alerts_collection) + 1, "AGENT_INACTIVE",
                          Agent(w).name, Agent(w).hostname,
                          Message("", "", 0, 0), now))
    /\ pc' = [pc EXCEPT ![w] = "set"]
    /\ UNCHANGED <<client, dispatch, response, now, agents_collection, metrics_collection, redis_client,
                   tasks, check_run, threshold, inactive_agents, idx>>

SweepSendRaises_thenSet(w) ==
    /\ pc[w] = "send"
    /\ pc' = [pc EXCEPT ![w] = "set"]
    /\ UNCHANGED <<client, dispatch, response, now, agents_collection,
                   alerts_collection, metrics_collection, redis_client, tasks,
                   check_run, threshold, inactive_agents, idx>>

\* send_alert: insert_one raises, and the exception ends the task
SweepSendRaises(w) ==
    /\ pc[w] = "send"
    /\ TaskEnds(w, "failed")
    /\ UNCHANGED <<client, dispatch, response, now, agents_collection, alerts_collection, metrics_collection,
                   redis_client, tasks, check_run>>

SweepSet(w) ==
    /\ pc[w] = "set"
    /\ redis_client' = RedisSet(redis_client, Agent(w).name, now)
    /\ NextAgent(w)
    /\ UNCHANGED <<client, dispatch, response, now, agents_collection, alerts_collection, metrics_collection,
                   tasks, check_run>>

check_agent_status(w) ==
    \/ SweepStart(w)
    \/ SweepFind(w)
    \/ SweepFindRaises(w)
    \/ SweepGet(w)
    \/ SweepSend(w)
    \/ SweepSendRaises(w)
    \/ SweepSet(w)

(***************************************************************************)
(* send_alert(alert_type, agent_name, hostname, message), statement by     *)
(* statement.  status: "running" between statements, "waiting" inside a    *)
(* channel function for the answer of the remote end (smtplib and          *)
(* requests.post are called without a timeout), "returned" or "raised"     *)
(* when the call is over.  A remote end is "up" (the send succeeds),       *)
(* "down" (an exception, or a status other than the expected one) or       *)
(* "silent" (it never answers).                                             *)
(***************************************************************************)
SendSteps_channelsFirst == <<"email", "telegram", "discord", "insert", "return">>

SendSteps == <<"insert", "email", "telegram", "discord", "return">>

ChannelStates == {"up", "down", "silent"}
AlertTypes == {"CPU_HIGH", "AGENT_INACTIVE"}

SendAlertCall(alert_type, agent_name, hostname) ==
    /\ send.status \in {"idle", "returned", "raised"}
    /\ Len(alerts_collection) < MaxAlerts
    /\ send' = [IdleSend EXCEPT !.status = "running", !.pos = 1,
                                !.alert_type = alert_type,
                                !.agent_name = agent_name,
                                !.hostname = hostname]
    /\ UNCHANGED <<client, ALERT_ENABLED, channel, response, now, agents_collection,
                   alerts_collection, metrics_collection, redis_client, tasks,
                   check_run, sweep>>

\* alerts_collection.insert_one({...}).inserted_id
SendInsert ==
    /\ send.status = "running" /\ SendSteps[send.pos] = "insert"
    /\ alerts_collection' =
          Append(alerts_collection,
                 AlertDoc(Len(alerts_collection) + 1, send.alert_type,
                          send.agent_name, send.hostname,
                          Message("", "", 0, 0), now))
    /\ send' = [send EXCEPT !.alert_id = Len(alerts_collection) + 1,
                            !.pos = @ + 1]
    /\ UNCHANGED <<client, ALERT_ENABLED, channel, response, now, agents_collection,
                   metrics_collection, redis_client, tasks, check_run, sweep>>

\* insert_one raises: the exception leaves send_alert
SendInsertRaises ==
    /\ send.status = "running" /\ SendSteps[send.pos] = "insert"
    /\ send' = [send EXCEPT !.status = "raised"]
    /\ UNCHANGED <<client, ALERT_ENABLED, channel, response, now, agents_collection,
                   alerts_collection, metrics_collection, redis_client, tasks,
                   check_run, sweep>>

\* if ALERT_<C>_ENABLED: send_<c>_alert(...): the call goes out, or is skipped
ChannelAttempt(c) ==
    /\ send.status = "running" /\ SendSteps[send.pos] = c
    /\ send' = IF ALERT_ENABLED[c]
               THEN [send EXCEPT !.status = "waiting", !.attempts[c] = @ + 1]
               ELSE [send EXCEPT !.pos = @ + 1]
    /\ UNCHANGED <<client, ALERT_ENABLED, channel, response, now, agents_collection,
                   alerts_collection, metrics_collection, redis_client, tasks,
                   check_run, sweep>>

AfterChannel_failureRaises(s, result) ==
    IF result = "false" THEN [s EXCEPT !.status = "raised"]
    ELSE [s EXCEPT !.status = "running", !.pos = @ + 1]

\* send_<c>_alert has returned True or False (its "except Exception" caught
\* whatever was raised); send_alert drops the value and goes on
AfterChannel(s, result) == [s EXCEPT !.status = "running", !.pos = @ + 1]

\* the remote end answers: the channel function returns True or False
ChannelResponds(c) ==
    /\ send.status = "waiting" /\ SendSteps[send.pos] = c
    /\ channel[c] # "silent"
    /\ LET result == IF channel[c] = "up" THEN "true" ELSE "false"
       IN send' = AfterChannel([send EXCEPT !.results[c] = result], result)
    /\ UNCHANGED <<client, ALERT_ENABLED, channel, response, now, agents_collection,
                   alerts_collection, metrics_collection, redis_client, tasks,
                   check_run, sweep>>

\* return str(alert_id)
SendReturn ==
    /\ send.status = "running" /\ SendSteps[send.pos] = "return"
    /\ send' = [send EXCEPT !.status = "returned",
                            !.return_value =
                                Some([id |-> ObjectIdStr(ObjectId(send.alert_id))])]
    /\ UNCHANGED <<client, ALERT_ENABLED, channel, response, now, agents_collection,
                   alerts_collection, metrics_collection, redis_client, tasks,
                   check_run, sweep>>

\* the statements of a call under way
SendStep ==
    \/ SendInsert
    \/ SendInsertRaises
    \/ \E c \in ChannelSet : ChannelAttempt(c)
    \/ \E c \in ChannelSet : ChannelResponds(c)
    \/ SendReturn

send_alert ==
    \/ \E alert_type \in AlertTypes : SendAlertCall(alert_type, "a1", "h1")
    \/ SendStep

(***************************************************************************)
(* DispatchSpec: calls of send_alert under every channel configuration and *)
(* every behaviour of the remote ends; a call under way takes its next     *)
(* statement whenever it has one to take.                                   *)
(***************************************************************************)
InitDispatch ==
    /\ now = BootTime
    /\ agents_collection = Upsert([a \in Agents |-> NoDoc], "a1", "h1", BootTime)
    /\ alerts_collection = <<>>
    /\ metrics_collection = 1
    /\ redis_client = [a \in Agents |-> -1]
    /\ tasks = <<>>
    /\ check_run = InitialRun
    /\ pc = [w \in Workers |-> "idle"]
    /\ threshold = [w \in Workers |-> 0]
    /\ inactive_agents = [w \in Workers |-> <<>>]
    /\ idx = [w \in Workers |-> 0]
    /\ ALERT_ENABLED \in [ChannelSet -> BOOLEAN]
    /\ channel \in [ChannelSet -> ChannelStates]
    /\ send = IdleSend
    /\ response = Response("receive_metrics", "a1", 0, 200)
    /\ x_api_key = Some("your_api_key_here")
    /\ agent = IdleAgent

NextDispatch == send_alert

DispatchSpec == InitDispatch /\ [][NextDispatch]_vars /\ WF_vars(SendStep)

(***************************************************************************)
(* POST /alerts/{alert_id}/acknowledge.  alert_id is the str of the path;  *)
(* the filter {"_id": alert_id} compares it with the stored _id, and BSON  *)
(* equality holds only between values of the same type.                     *)
(***************************************************************************)
BsonString(str) == [str |-> str]

\* the positions of the documents the filter {"_id": value} matches
FindById(alerts, value) == {i \in 1..Len(alerts) : alerts[i]._id = value}

acknowledge_alert(alert_id) ==
    LET matched == FindById(alerts_collection, BsonString(alert_id))
        first == CHOOSE i \in matched : \A j \in matched : i <= j
        modified_count ==
            IF matched # {} /\ ~alerts_collection[first].acknowledged
            THEN 1 ELSE 0
    IN /\ alerts_collection' =
             IF modified_count = 1
             THEN [alerts_collection EXCEPT ![first].acknowledged = TRUE]
             ELSE alerts_collection
       /\ response' = Response("acknowledge_alert", "", alert_id,
                               IF modified_count = 0 THEN 404 ELSE 200)
       /\ UNCHANGED <<dispatch, now, agents_collection, metrics_collection,
                      redis_client, tasks, check_run, sweep>>

\* the ids a client can have read from the API: str() of the ObjectIds
AlertIds == {ObjectIdStr(ObjectId(n)) : n \in 1..MaxAlerts}

AcknowledgeAlert ==
    /\ \E alert_id \in AlertIds : acknowledge_alert(alert_id)
    /\ ValidKeySent
    /\ UNCHANGED agent

(***************************************************************************)
(* The system: the API server and the Celery workers over one store.        *)
(***************************************************************************)
Init ==
    /\ now = BootTime
    /\ agents_collection = [a \in Agents |-> NoDoc]
    /\ alerts_collection = <<>>
    /\ metrics_collection = 0
    /\ redis_client = [a \in Agents |-> -1]
    /\ tasks = <<>>
    /\ check_run = InitialRun
    /\ pc = [w \in Workers |-> "idle"]
    /\ threshold = [w \in Workers |-> 0]
    /\ inactive_agents = [w \in Workers |-> <<>>]
    /\ idx = [w \in Workers |-> 0]
    /\ ChannelsDisabled
    /\ response = NoResponse
    /\ x_api_key = None
    /\ agent = IdleAgent

(***************************************************************************)
(* Spec: agent a1 and one worker process, so that the sweeps run one after *)
(* another, over the whole run of the clock.                                *)
(***************************************************************************)
Tick == TickUntil(MaxTime)
ReceiveQuiet == ReceiveMetricsFrom(QuietSnapshots("a1"))

Next ==
    \/ Tick
    \/ ReceiveQuiet
    \/ CheckThresholdsTask
    \/ check_agent_status("w1")

Spec == Init /\ [][Next]_vars

(***************************************************************************)
(* SilentSpec: agent a1 has reported once, at boot, and stays silent; the  *)
(* clock advances, the beat schedule keeps starting the task, a started    *)
(* task takes its steps, and the store answers in the end.                  *)
(***************************************************************************)
InitSilent ==
    /\ now = BootTime
    /\ agents_collection =
          Upsert([a \in Agents |-> NoDoc], "a1", "h1", BootTime)
    /\ alerts_collection = <<>>
    /\ metrics_collection = 1
    /\ redis_client = [a \in Agents |-> -1]
    /\ tasks = <<>>
    /\ check_run = [metrics |-> Some(MetricsData("a1", "h1", None, None, None,
                                                 None, None)),
                    status |-> "returned", alerts_sent |-> <<>>]
    /\ pc = [w \in Workers |-> "idle"]
    /\ threshold = [w \in Workers |-> 0]
    /\ inactive_agents = [w \in Workers |-> <<>>]
    /\ idx = [w \in Workers |-> 0]
    /\ ChannelsDisabled
    /\ response = Response("receive_metrics", "a1", 0, 200)
    /\ x_api_key = Some("your_api_key_here")
    /\ agent = IdleAgent

NextSilent ==
    \/ Tick
    \/ check_agent_status("w1")

SilentSpec ==
    /\ InitSilent /\ [][NextSilent]_vars
    /\ WF_vars(Tick)
    /\ WF_vars(SweepStart("w1"))
    /\ SF_vars(SweepFind("w1"))
    /\ WF_vars(SweepGet("w1"))
    /\ SF_vars(SweepSend("w1"))
    /\ WF_vars(SweepSet("w1"))

(***************************************************************************)
(* ConcSpec: agent a1 and both worker processes, snapshots over threshold  *)
(* and policy updates, over the first EarlyRun seconds.                     *)
(***************************************************************************)
TickEarly == TickUntil(BootTime + EarlyRun)
ReceiveMetrics ==
    ReceiveMetricsFrom(QuietSnapshots("a1") \cup BusySnapshots("a1"))
UpdateAgentConfig == UpdateAgentConfigOf({"a1"})

NextConc ==
    \/ TickEarly
    \/ ReceiveMetrics
    \/ CheckThresholdsTask
    \/ UpdateAgentConfig
    \/ \E w \in Workers : check_agent_status(w)

ConcSpec == Init /\ [][NextConc]_vars

(***************************************************************************)
(* FleetSpec: both agents and one worker process, over the first EarlyRun  *)
(* seconds.                                                                 *)
(***************************************************************************)
ReceiveFleet ==
    ReceiveMetricsFrom(UNION {QuietSnapshots(a) : a \in Agents})

NextFleet ==
    \/ TickEarly
    \/ ReceiveFleet
    \/ CheckThresholdsTask
    \/ check_agent_status("w1")

FleetSpec == Init /\ [][NextFleet]_vars

(***************************************************************************)
(* AckSpec: agent a1, one worker process and a client that acknowledges    *)
(* alerts, over the first EarlyRun seconds.                                 *)
(***************************************************************************)
NextAck ==
    \/ TickEarly
    \/ ReceiveMetrics
    \/ CheckThresholdsTask
    \/ check_agent_status("w1")
    \/ AcknowledgeAlert

AckSpec == Init /\ [][NextAck]_vars

(***************************************************************************)
(* Requests with their X-API-Key header.  Every endpoint declares           *)
(* api_key: str = Depends(verify_api_key): a request without the header is *)
(* answered 422 by the framework, one whose key verify_api_key refuses 401, *)
(* and only then does the handler run.                                      *)
(***************************************************************************)
Headers == {None, Some("your_api_key_here"), Some("wrong_key")}

Rejected(op, agent_name, alert_id, status_code) ==
    /\ response' = Response(op, agent_name, alert_id, status_code)
    /\ UNCHANGED <<dispatch, now, agents_collection, alerts_collection,
                   metrics_collection, redis_client, tasks, check_run, sweep>>

Request(header, op, agent_name, alert_id, handler) ==
    /\ x_api_key' = header
    /\ UNCHANGED agent
    /\ IF header = None THEN Rejected(op, agent_name, alert_id, 422)
       ELSE IF ~verify_api_key(Val(header))
            THEN Rejected(op, agent_name, alert_id, 401)
            ELSE handler

\* GET /agents, GET /history/{agent_name}, GET /alerts: a find(), or it raises
ReadOnly(op, agent_name) ==
    /\ \E status_code \in {200, 500} :
          response' = Response(op, agent_name, 0, status_code)
    /\ UNCHANGED <<dispatch, now, agents_collection, alerts_collection,
                   metrics_collection, redis_client, tasks, check_run, sweep>>

PostData ==
    \E header \in Headers :
       \E metrics \in QuietSnapshots("a1") \cup BusySnapshots("a1") :
          \E outcome \in {"ok", "insert_raises", "update_raises"} :
             Request(header, "receive_metrics", metrics.agent_name, 0,
                     receive_metrics(metrics, outcome))

PostAcknowledge ==
    \E header \in Headers : \E alert_id \in AlertIds :
       Request(header, "acknowledge_alert", "", alert_id,
               acknowledge_alert(alert_id))

PostConfig ==
    \E header \in Headers : \E config \in SubmittedConfigs :
       Request(header, "update_agent_config", "a1", 0,
               update_agent_config("a1", config))

GetAgents ==
    \E header \in Headers :
       Request(header, "get_agents", "", 0, ReadOnly("get_agents", ""))

GetHistory ==
    \E header \in Headers :
       Request(header, "get_agent_history", "a1", 0,
               ReadOnly("get_agent_history", "a1"))

GetAlerts ==
    \E header \in Headers :
       Request(header, "get_alerts", "", 0, ReadOnly("get_alerts", ""))

(***************************************************************************)
(* AuthSpec: clients with and without a valid key call every endpoint, and *)
(* the accepted snapshots of a1 are evaluated.                              *)
(***************************************************************************)
NextAuth ==
    \/ PostData
    \/ PostAcknowledge
    \/ PostConfig
    \/ GetAgents
    \/ GetHistory
    \/ GetAlerts
    \/ CheckThresholdsTask

AuthSpec == Init /\ [][NextAuth]_vars

(***************************************************************************)
(* The monitoring agent (src/agent.py), SentoraAgent.run:                   *)
(*   collect : metrics = self.collect_metrics()                             *)
(*   send    : self.send_metrics(metrics) is called                         *)
(*   posting : inside requests.post (no timeout: it may wait forever)      *)
(*   sleep   : time.sleep(interval)                                         *)
(*   stopped : run() has returned rc                                        *)
(* seq numbers the snapshots collected, posts counts the requests made for *)
(* the current one, sent_seq is the snapshot the last request carried.      *)
(***************************************************************************)
MaxCollects == 3

server_state ==
    <<dispatch, response, x_api_key, now, agents_collection, alerts_collection,
      metrics_collection, redis_client, tasks, check_run, sweep>>

AgentRun ==
    /\ agent.pc = "idle"
    /\ agent' = [agent EXCEPT !.pc = "collect"]
    /\ UNCHANGED server_state

AgentCollect ==
    /\ agent.pc = "collect"
    /\ agent.seq < MaxCollects
    /\ \E metrics \in QuietSnapshots("a1") \cup BusySnapshots("a1") :
          agent' = [agent EXCEPT !.pc = "send", !.metrics = Some(metrics),
                                 !.seq = @ + 1, !.posts = 0]
    /\ UNCHANGED server_state

\* an exception leaves collect_metrics: except Exception ... return 1
AgentCollectRaises ==
    /\ agent.pc = "collect"
    /\ agent' = [agent EXCEPT !.pc = "stopped", !.rc = 1, !.cause = "Exception"]
    /\ UNCHANGED server_state

\* send_metrics reads self.config['server'] before its try block: a
\* configuration without the entry raises KeyError into run()
AgentSendRaises ==
    /\ agent.pc = "send"
    /\ agent.server_url = None
    /\ agent' = [agent EXCEPT !.pc = "stopped", !.rc = 1, !.cause = "Exception"]
    /\ UNCHANGED server_state

\* send_metrics: requests.post(server_url, json=metrics, headers=headers)
AgentPost ==
    /\ agent.pc = "send"
    /\ agent.server_url # None
    /\ agent' = [agent EXCEPT !.pc = "posting", !.posts = @ + 1,
                              !.sent_seq = agent.seq]
    /\ UNCHANGED server_state

AfterSend_failureStops(a, result) ==
    IF result = "false"
    THEN [a EXCEPT !.pc = "stopped", !.result = result, !.rc = 1,
                   !.cause = "Exception"]
    ELSE [a EXCEPT !.pc = "sleep", !.result = result]

\* send_metrics has returned True or False; run() drops the value, logs and
\* goes to sleep
AfterSend(a, result) == [a EXCEPT !.pc = "sleep", !.result = result]

\* the server answers the request: 200 makes send_metrics return True, any
\* other status False
AgentDelivered ==
    /\ agent.pc = "posting"
    /\ x_api_key' = Some(agent.api_key)
    /\ IF ~verify_api_key(agent.api_key)
       THEN Rejected("receive_metrics", Val(agent.metrics).agent_name, 0, 401)
       ELSE \E outcome \in {"ok", "insert_raises", "update_raises"} :
               receive_metrics(Val(agent.metrics), outcome)
    /\ agent' = AfterSend(agent, IF response'.status_code = 200
                                 THEN "true" ELSE "false")

\* requests.post raises (connection refused, DNS, ...): except Exception
AgentConnectionError ==
    /\ agent.pc = "posting"
    /\ agent' = AfterSend(agent, "false")
    /\ UNCHANGED server_state

\* time.sleep(interval) with a negative interval raises ValueError
AgentSleepRaises ==
    /\ agent.pc = "sleep"
    /\ agent.interval < 0
    /\ agent' = [agent EXCEPT !.pc = "stopped", !.rc = 1, !.cause = "Exception"]
    /\ UNCHANGED server_state

\* time.sleep(interval) returns
AgentWake ==
    /\ agent.pc = "sleep"
    /\ agent.interval >= 0
    /\ agent' = [agent EXCEPT !.pc = "collect"]
    /\ UNCHANGED server_state

\* Ctrl-C anywhere inside the loop: except KeyboardInterrupt ... return 0
AgentInterrupt ==
    /\ agent.pc \in {"collect", "send", "posting", "sleep"}
    /\ agent' = [agent EXCEPT !.pc = "stopped", !.rc = 0,
                              !.cause = "KeyboardInterrupt"]
    /\ UNCHANGED server_state

run ==
    \/ AgentRun
    \/ AgentCollect
    \/ AgentCollectRaises
    \/ AgentSendRaises
    \/ AgentPost
    \/ AgentDelivered
    \/ AgentConnectionError
    \/ AgentSleepRaises
    \/ AgentWake
    \/ AgentInterrupt

(***************************************************************************)
(* AgentSpec: the agent of a1 against the server that evaluates what it    *)
(* accepts.  The configuration file is not validated when it is loaded: it *)
(* may hold a key the server refuses, lack the server url, or hold an      *)
(* interval time.sleep does not take.                                       *)
(***************************************************************************)
AgentConfigs ==
    { [server_url |-> Some("url"), api_key |-> "your_api_key_here",
       interval |-> 60],
      [server_url |-> Some("url"), api_key |-> "wrong_key", interval |-> 60],
      [server_url |-> None, api_key |-> "your_api_key_here", interval |-> 60],
      [server_url |-> Some("url"), api_key |-> "your_api_key_here",
       interval |-> -1] }

InitAgent ==
    /\ now = BootTime
    /\ agents_collection = [a \in Agents |-> NoDoc]
    /\ alerts_collection = <<>>
    /\ metrics_collection = 0
    /\ redis_client = [a \in Agents |-> -1]
    /\ tasks = <<>>
    /\ check_run = InitialRun
    /\ pc = [w \in Workers |-> "idle"]
    /\ threshold = [w \in Workers |-> 0]
    /\ inactive_agents = [w \in Workers |-> <<>>]
    /\ idx = [w \in Workers |-> 0]
    /\ ChannelsDisabled
    /\ response = NoResponse
    /\ x_api_key = None
    /\ \E config \in AgentConfigs :
          agent = [IdleAgent EXCEPT !.server_url = config.server_url,
                                    !.api_key = config.api_key,
                                    !.interval = config.interval]

NextRun ==
    \/ run
    \/ CheckThresholdsTask

AgentSpec == InitAgent /\ [][NextRun]_vars

(***************************************************************************)
(* PolicySpec: agent a1, its snapshots, their evaluation, and updates of   *)
(* its alert configuration.                                                 *)
(***************************************************************************)
NextPolicy ==
    \/ ReceiveMetrics
    \/ CheckThresholdsTask
    \/ UpdateAgentConfig

PolicySpec == Init /\ [][NextPolicy]_vars

(***************************************************************************)
(* Properties.                                                              *)
(***************************************************************************)
\* datetime.fromisoformat, to measure the distance between two timestamps
ParseIso(s) == s[1] * 1000 + s[2] * 100 + s[3] * 10 + s[4]

\* the positions of the alert records of one kind for one source
AlertsOf(alert_type, a) ==
    {i \in 1..Len(alerts_collection) :
        /\ alerts_collection[i].alert_type = alert_type
        /\ alerts_collection[i].agent_name = a}

\* no two records of the kind for the source lie inside one suppression window
OncePerWindow(alert_type, a) ==
    \A i, j \in AlertsOf(alert_type, a) :
        i < j => ParseIso(alerts_collection[j].timestamp)
                    - ParseIso(alerts_collection[i].timestamp) >= SuppressionTTL

\* C1: threshold alerts are deduplicated end to end: no two CPU_HIGH records
\* of one source are created inside one 3600 s suppression window (two
\* snapshots with cpu 92 against threshold 80 give exactly one record).
ThresholdAlertOncePerWindow == \A a \in Agents : OncePerWindow("CPU_HIGH", a)

\* C2: with the sweeps run one after another, a source gets at most one
\* AGENT_INACTIVE record inside any 3600 s window, and no sweep is admitted
\* (is at its send_alert) for a source whose suppression entry is still live.
InactiveAlertOncePerWindow ==
    /\ \A a \in Agents : OncePerWindow("AGENT_INACTIVE", a)
    /\ \A w \in Workers :
          pc[w] = "send" => ~(redis_client[Agent(w).name] # -1
                              /\ now < redis_client[Agent(w).name])

\* C2 witness: a second AGENT_INACTIVE record of a1 exists (the window of the
\* first one has run out), and a later sweep stands before the live entry.
SuppressedAfterSecondAlert ==
    /\ Cardinality(AlertsOf("AGENT_INACTIVE", "a1")) = 2
    /\ pc["w1"] = "get"
    /\ Agent("w1").name = "a1"
    /\ now < redis_client["a1"]

\* C3: the check-and-set of the suppression entry is atomic per key: two
\* executions of check_agent_status are never both admitted for one source,
\* so concurrent sweeps never leave two AGENT_INACTIVE records of it inside
\* one suppression window.
AdmitAtomicPerKey ==
    /\ \A w1, w2 \in Workers :
          (/\ w1 # w2
           /\ pc[w1] \in {"send", "set"}
           /\ pc[w2] \in {"send", "set"})
          => Agent(w1).name # Agent(w2).name
    /\ \A a \in Agents :
          Cardinality(AlertsOf("AGENT_INACTIVE", a)) >= 2
             => OncePerWindow("AGENT_INACTIVE", a)

\* the source is silent now, and no live suppression entry covers it
SilentNow(a) ==
    /\ agents_collection[a].exists
    /\ now - ParseIso(agents_collection[a].last_seen) > InactiveAfter

Suppressed(a) == redis_client[a] # -1 /\ now < redis_client[a]

\* C4: no permanent suppression: a suppression entry never has more than
\* 3600 s left to live, and under a fairly scheduled sweep a source that
\* stays silent gets a new AGENT_INACTIVE record whenever no live entry
\* covers it, again and again.
NoPermanentSuppression ==
    /\ [](\A a \in Agents :
            redis_client[a] # -1 => redis_client[a] <= now + SuppressionTTL)
    /\ \A k \in 0..(MaxAlerts - 1) :
          (/\ SilentNow("a1") /\ ~Suppressed("a1")
           /\ pc["w1"] \in {"idle", "failed"}
           /\ Cardinality(AlertsOf("AGENT_INACTIVE", "a1")) = k)
          ~> (Cardinality(AlertsOf("AGENT_INACTIVE", "a1")) > k)

\* C4 witness: a1 never reported again after its first AGENT_INACTIVE record,
\* and a second record was created once the 3600 s of the entry had passed.
SilentSourceAlertedAgain ==
    \E i, j \in AlertsOf("AGENT_INACTIVE", "a1") :
       /\ i < j
       /\ ParseIso(agents_collection["a1"].last_seen)
             < ParseIso(alerts_collection[i].timestamp) - InactiveAfter
       /\ ParseIso(alerts_collection[j].timestamp)
             >= ParseIso(alerts_collection[i].timestamp) + SuppressionTTL

\* C10: a sweep selects exactly the silent sources: the find() of a sweep
\* whose clock read t returns one document for every registered source with
\* t - last_seen > 600 and none for any other; each send_alert of the sweep
\* adds exactly one AGENT_INACTIVE record, for the source at hand; and when the
\* sweep has gone through its list every source on it has exactly one
\* AGENT_INACTIVE record.
SweepSelectsSilent ==
    [][\A w \in Workers :
         /\ (pc[w] = "find" /\ pc'[w] \in {"get", "idle"}) =>
               LET t == threshold[w] + 600
                   silent == {a \in Agents :
                                /\ agents_collection[a].exists
                                /\ t - ParseIso(agents_collection[a].last_seen) > 600}
                   found == inactive_agents'[w]
               IN /\ {found[i].name : i \in 1..Len(found)} = silent
                  /\ Len(found) = Cardinality(silent)
         /\ (pc[w] = "send" /\ pc'[w] = "set") =>
               /\ Len(alerts_collection') = Len(alerts_collection) + 1
               /\ SubSeq(alerts_collection', 1, Len(alerts_collection))
                     = alerts_collection
               /\ alerts_collection'[Len(alerts_collection')].alert_type
                     = "AGENT_INACTIVE"
               /\ alerts_collection'[Len(alerts_collection')].agent_name
                     = Agent(w).name
         /\ (pc[w] \in {"get", "set"} /\ pc'[w] = "idle") =>
               \A i \in 1..Len(inactive_agents[w]) :
                  Cardinality(AlertsOf("AGENT_INACTIVE", inactive_agents[w][i].name)) = 1
      ]_vars

\* C10 witness: a sweep 1201 s after a1's last snapshot and exactly 600 s
\* after a2's found a1 alone and recorded one AGENT_INACTIVE alert, for a1.
OnlyTheSilentSourceAlerted ==
    /\ pc["w1"] = "set"
    /\ Len(inactive_agents["w1"]) = 1
    /\ Agent("w1").name = "a1"
    /\ agents_collection["a2"].exists
    /\ now - ParseIso(agents_collection["a1"].last_seen) = 1201
    /\ now - ParseIso(agents_collection["a2"].last_seen) = 600
    /\ Cardinality(AlertsOf("AGENT_INACTIVE", "a1")) = 1
    /\ AlertsOf("AGENT_INACTIVE", "a2") = {}

\* C21: a suppression entry lives exactly 3600 s from its creation: an entry
\* is written with expiry now + 3600, and while it is live no step, whether a
\* sweep, a new snapshot of the source or anything else, rewrites, extends or
\* removes it.
EntryLivesItsTTL ==
    [][\A a \in Agents :
          IF Suppressed(a)
          THEN redis_client'[a] = redis_client[a]
          ELSE redis_client'[a] \in {redis_client[a], now + SuppressionTTL}
      ]_vars

\* C23 as stated: a live suppression entry of a source exists only if an
\* AGENT_INACTIVE record of that source was persisted within the last 3600 s.
EntryOnlyWithRecentRecord ==
    \A a \in Agents :
       Suppressed(a) =>
          \E i \in AlertsOf("AGENT_INACTIVE", a) :
             now - ParseIso(alerts_collection[i].timestamp) <= SuppressionTTL

\* C23, amended: a live suppression entry of a source exists only if an
\* AGENT_INACTIVE record of that source was persisted before the entry was
\* written (its timestamp lies at least 3600 s before the entry's expiry);
\* the entry is written only by a sweep whose send_alert for that source has
\* returned, and a send_alert that raises leaves records and entries as they
\* were, with the task over so that the next sweep starts afresh.
EntryOnlyAfterRecord ==
    /\ [](\A a \in Agents :
            Suppressed(a) =>
               \E i \in AlertsOf("AGENT_INACTIVE", a) :
                  ParseIso(alerts_collection[i].timestamp) + SuppressionTTL
                     <= redis_client[a])
    /\ [][/\ \A a \in Agents :
               redis_client'[a] # redis_client[a] =>
                  \E w \in Workers :
                     /\ pc[w] = "set" /\ Agent(w).name = a
                     /\ AlertsOf("AGENT_INACTIVE", a) # {}
          /\ \A w \in Workers :
               (pc[w] = "send" /\ pc'[w] = "failed") =>
                  /\ redis_client' = redis_client
                  /\ alerts_collection' = alerts_collection
         ]_vars

\* C23 witness: the entry of a1 is live although the only AGENT_INACTIVE
\* record of a1 is more than 3600 s old: time passed between the insert of
\* the record and the set of the entry.
EntryLiveRecordOlder ==
    /\ Suppressed("a1")
    /\ Cardinality(AlertsOf("AGENT_INACTIVE", "a1")) = 1
    /\ \A i \in AlertsOf("AGENT_INACTIVE", "a1") :
          /\ now - ParseIso(alerts_collection[i].timestamp) > SuppressionTTL
          /\ ParseIso(alerts_collection[i].timestamp) + SuppressionTTL
                < redis_client["a1"]

\* C24: no AGENT_INACTIVE record is created for a source whose stored
\* last_seen is less than 600 s old when the record is created, also when a
\* snapshot of the source is accepted between the find() of a running sweep
\* and its send_alert for that source.
NoAlertForFreshSource ==
    [][\A w \in Workers :
          (pc[w] = "send" /\ pc'[w] = "set") =>
             now - ParseIso(agents_collection[Agent(w).name].last_seen)
                >= InactiveAfter
      ]_vars

KnownAlertTypes ==
    {"CPU_HIGH", "RAM_HIGH", "DISK_HIGH", "SERVICE_DOWN", "SSH_BRUTE_FORCE",
     "AGENT_INACTIVE"}

\* C11: recovery is implicit: an accepted snapshot sets the source's
\* last_seen to the time of its arrival and creates no alert record; the
\* find() of a sweep that started at time s lists no source with
\* s - last_seen <= 600, and the sweep records AGENT_INACTIVE alerts only for
\* the sources it listed; no record of any other kind than the six alert
\* types (no "recovered" alert) is ever created.
RecoveryIsImplicit ==
    [][/\ Len(tasks') = Len(tasks) + 1 =>
            /\ agents_collection'[tasks'[Len(tasks')].agent_name].last_seen
                  = IsoFormat(now)
            /\ alerts_collection' = alerts_collection
       /\ \A w \in Workers :
            /\ (pc[w] = "find" /\ pc'[w] = "get") =>
                  \A i \in 1..Len(inactive_agents'[w]) :
                     (threshold[w] + InactiveAfter)
                        - ParseIso(agents_collection[inactive_agents'[w][i].name].last_seen)
                     > InactiveAfter
            /\ (pc[w] = "send" /\ pc'[w] = "set") =>
                  \E i \in 1..Len(inactive_agents[w]) :
                     alerts_collection'[Len(alerts_collection')].agent_name
                        = inactive_agents[w][i].name
       /\ \A i \in 1..Len(alerts_collection') :
            alerts_collection'[i].alert_type \in KnownAlertTypes
      ]_vars

\* C11 witness: a1 was recorded as inactive, reported again, and a sweep
\* started exactly 600 s after that snapshot is about to run its find().
SweepAfterRecovery ==
    /\ pc["w1"] = "find"
    /\ \E i \in AlertsOf("AGENT_INACTIVE", "a1") :
          ParseIso(alerts_collection[i].timestamp)
             <= ParseIso(agents_collection["a1"].last_seen)
    /\ (threshold["w1"] + InactiveAfter)
          - ParseIso(agents_collection["a1"].last_seen) = InactiveAfter

(***************************************************************************)
(* send_alert and its channels (DispatchSpec).                              *)
(***************************************************************************)
\* the insert_one of the call under way (or of the last call) has succeeded
Inserted == send.alert_id # 0

\* C12: the alert record is persisted before any channel is invoked and is
\* never rolled back: whenever a channel has been attempted the record of
\* the call is in the collection, and no step of send_alert, whatever the
\* channels answer, changes or removes a record that is already stored.
PersistedBeforeDispatch ==
    /\ [](\A c \in ChannelSet :
            send.attempts[c] > 0 =>
               /\ Inserted
               /\ send.alert_id \in 1..Len(alerts_collection)
               /\ alerts_collection[send.alert_id]._id = ObjectId(send.alert_id)
               /\ alerts_collection[send.alert_id].alert_type = send.alert_type
               /\ alerts_collection[send.alert_id].agent_name = send.agent_name)
    /\ [][/\ Len(alerts_collection') >= Len(alerts_collection)
          /\ \A i \in 1..Len(alerts_collection) :
                alerts_collection'[i] = alerts_collection[i]]_vars

\* C12 witness: all three channels are enabled and every one of them has
\* failed; send_alert returned and the record of the call is stored.
EveryChannelFailedRecordKept ==
    /\ send.status = "returned"
    /\ \A c \in ChannelSet : ALERT_ENABLED[c] /\ send.results[c] = "false"
    /\ alerts_collection[send.alert_id].alert_type = send.alert_type

\* C13: channel isolation without retry: no channel is attempted more than
\* once per call, a disabled channel is never attempted, a call that returns
\* has attempted every enabled channel exactly once whatever the earlier
\* channels answered, an exception leaves send_alert only from its
\* insert_one, and a call none of whose enabled channels stays silent ends.
ChannelIsolation ==
    /\ [](/\ \A c \in ChannelSet :
               /\ send.attempts[c] <= 1
               /\ ~ALERT_ENABLED[c] =>
                     send.attempts[c] = 0 /\ send.results[c] = "none"
          /\ send.status = "returned" =>
               \A c \in ChannelSet :
                  send.attempts[c] = (IF ALERT_ENABLED[c] THEN 1 ELSE 0)
          /\ send.status = "raised" =>
               ~Inserted /\ \A c \in ChannelSet : send.attempts[c] = 0)
    /\ ((/\ send.status \in {"running", "waiting"}
         /\ \A c \in ChannelSet : ALERT_ENABLED[c] => channel[c] # "silent")
           ~> (send.status \in {"returned", "raised"}))

\* C13 witness: email is enabled and failed, telegram is enabled and was
\* sent after it, discord is disabled and was left alone; the call returned.
TelegramSentAfterEmailFailed ==
    /\ send.status = "returned"
    /\ ALERT_ENABLED["email"] /\ send.results["email"] = "false"
    /\ ALERT_ENABLED["telegram"] /\ send.results["telegram"] = "true"
    /\ ~ALERT_ENABLED["discord"] /\ send.attempts["discord"] = 0
    /\ send.attempts["email"] = 1 /\ send.attempts["telegram"] = 1

\* C14: the dispatcher never blocks on a slow channel beyond its timeout: a
\* send_alert call that waits for the answer of a channel gives up on it in
\* the end, goes on to the other channels and returns.
DispatchNeverBlocks == (send.status = "waiting") ~> (send.status = "returned")

\* the outcome of channel c as the claim names it
Outcome(c) ==
    IF ~ALERT_ENABLED[c] THEN "Disabled"
    ELSE IF send.results[c] = "true" THEN "Sent" ELSE "Failed"

\* C15: every dispatch yields an outcome per channel to its caller: the
\* value send_alert returns holds, for each of the channels, whether it was
\* Sent, Failed or Disabled, in agreement with what the channel did.
OutcomePerChannel ==
    send.status = "returned" =>
       \A c \in ChannelSet :
          /\ c \in DOMAIN Val(send.return_value)
          /\ Val(send.return_value)[c] = Outcome(c)

(***************************************************************************)
(* The API handlers.                                                        *)
(***************************************************************************)
\* the step is the handling of a request by handler op
Handled(op) == response' # response /\ response'.op = op

\* C16: liveness is updated first and always: every handling of a snapshot
\* by receive_metrics leaves the source's last_seen at the time of arrival,
\* whichever later step of the handler fails, and a run of check_thresholds
\* leaves last_seen as receive_metrics set it.
LivenessUpdatedFirst ==
    [][/\ Handled("receive_metrics") =>
            /\ agents_collection'[response'.agent_name].exists
            /\ agents_collection'[response'.agent_name].last_seen
                  = IsoFormat(now)
       /\ Len(tasks') < Len(tasks) => agents_collection' = agents_collection
      ]_vars

\* C17: a store failure while the alerts of a snapshot are persisted is
\* surfaced to the submitter: when the check_thresholds run of a snapshot
\* with cpu 92 has raised and left no CPU_HIGH record, the response to the
\* submission of that source's snapshot is not a success.
StoreFailureSurfaced ==
    (/\ check_run.status = "raised"
     /\ Val(check_run.metrics).cpu_usage = Some(92)
     /\ AlertsOf("CPU_HIGH", Val(check_run.metrics).agent_name) = {}
     /\ response.op = "receive_metrics"
     /\ response.agent_name = Val(check_run.metrics).agent_name)
    => response.status_code # 200

\* the positions of the records whose id, as send_alert returned it, is id
WithId(id) ==
    {i \in 1..Len(alerts_collection) :
        ObjectIdStr(alerts_collection[i]._id) = id}

\* C18: acknowledge_alert(id) on the id of an existing record reports
\* success and leaves the record acknowledged; on an id no record has it
\* reports 404 and changes no record.
AcknowledgeExisting ==
    [][Handled("acknowledge_alert") =>
          IF WithId(response'.alert_id) # {}
          THEN /\ response'.status_code = 200
               /\ \A i \in WithId(response'.alert_id) :
                     alerts_collection'[i].acknowledged
          ELSE /\ response'.status_code = 404
               /\ alerts_collection' = alerts_collection
      ]_vars

\* C19: a record is created with acknowledged = false; no step removes a
\* record, and the only change a step makes to a stored record is
\* acknowledge_alert turning its acknowledged from false to true.
RecordsChangeOnlyByAcknowledge ==
    [][/\ Len(alerts_collection') >= Len(alerts_collection)
       /\ \A i \in 1..Len(alerts_collection) :
            \/ alerts_collection'[i] = alerts_collection[i]
            \/ /\ Handled("acknowledge_alert")
               /\ ~alerts_collection[i].acknowledged
               /\ alerts_collection'[i]
                     = [alerts_collection[i] EXCEPT !.acknowledged = TRUE]
       /\ \A i \in (Len(alerts_collection) + 1)..Len(alerts_collection') :
            alerts_collection'[i].acknowledged = FALSE
      ]_vars

\* C19 witness: the CPU_HIGH record of a1 was created first; the sweep has
\* since recorded AGENT_INACTIVE for a1, a client has called acknowledge_alert,
\* and both records are as they were created.
RecordsAsCreated ==
    /\ Len(alerts_collection) = 2
    /\ alerts_collection[1].alert_type = "CPU_HIGH"
    /\ alerts_collection[2].alert_type = "AGENT_INACTIVE"
    /\ ParseIso(alerts_collection[1].timestamp)
          < ParseIso(alerts_collection[2].timestamp)
    /\ response.op = "acknowledge_alert"
    /\ \A i \in 1..2 : alerts_collection[i].acknowledged = FALSE

\* C22: only update_agent_config writes a source's alert policy: a step that
\* changes the stored alert_config of an agent is a successful
\* update_agent_config for that agent, and not a step of receive_metrics,
\* check_thresholds or check_agent_status.
PolicyWrittenOnlyByUpdate ==
    [][\A a \in Agents :
          agents_collection'[a].alert_config # agents_collection[a].alert_config
          => /\ response' = Response("update_agent_config", a, 0, 200)
             /\ metrics_collection' = metrics_collection
             /\ tasks' = tasks
             /\ check_run' = check_run
             /\ pc' = pc
      ]_vars

\* C22 witness: after update_agent_config stored cpu_threshold 95 for a1, a
\* further snapshot of a1 was accepted and evaluated and a sweep has recorded
\* an alert for a1; the stored policy is still the one that was set.
PolicySurvivesSnapshots ==
    /\ agents_collection["a1"].alert_config
          = Some(AlertConfig(95, 95, 95, FALSE, FALSE))
    /\ response = Response("receive_metrics", "a1", 0, 200)
    /\ agents_collection["a1"].last_seen = IsoFormat(now)
    /\ AlertsOf("AGENT_INACTIVE", "a1") # {}
    /\ check_run.status = "returned"
    /\ Val(check_run.metrics).cpu_usage = Some(92)
    /\ check_run.alerts_sent = <<>>
    /\ tasks = <<>>

\* C25: a request whose X-API-Key is not in API_KEYS is answered 401 by
\* every endpoint and changes no state: no metric stored, no agent
\* registered, last_seen and alert_config as before, no evaluation scheduled
\* or run, no alert created or acknowledged, no suppression entry touched.
UnauthorizedRejected ==
    [][(/\ <<x_api_key, response>>' # <<x_api_key, response>>
        /\ x_api_key' # None
        /\ x_api_key'[1] \notin {"your_api_key_here"})
       => /\ response'.status_code = 401
          /\ UNCHANGED <<agents_collection, alerts_collection,
                         metrics_collection, tasks, check_run, redis_client>>
      ]_vars

\* C25 witness: with a1 registered and an unacknowledged CPU_HIGH record
\* stored, a request to acknowledge that record came with a wrong key and
\* was answered 401.
WrongKeyAnswered401 ==
    /\ x_api_key = Some("wrong_key")
    /\ response = Response("acknowledge_alert", "", 1, 401)
    /\ agents_collection["a1"].exists
    /\ Len(alerts_collection) >= 1
    /\ ~alerts_collection[1].acknowledged

\* C26 as stated: a failed delivery never stops the agent's loop: when
\* send_metrics is over without Ctrl-C the loop is asleep and still running,
\* with result True only for an answer 200 and False otherwise; a snapshot is
\* posted at most once and every request carries the snapshot just collected;
\* after the sleep the loop collects a fresh snapshot; and run() ends only by
\* KeyboardInterrupt with 0 or by an exception during collection with 1.
LoopEndsOnlyInCollection ==
    [][/\ (agent.pc = "posting" /\ agent' # agent
            /\ agent'.cause # "KeyboardInterrupt") =>
             /\ agent'.pc = "sleep" /\ agent'.rc = -1
             /\ agent'.result \in {"true", "false"}
             /\ agent'.result = "true" <=>
                   /\ response' = Response("receive_metrics", "a1", 0, 200)
                   /\ Len(tasks') = Len(tasks) + 1
       /\ agent'.posts <= 1
       /\ agent'.posts = agent.posts + 1 => agent'.sent_seq = agent.seq
       /\ (agent.pc = "sleep" /\ agent' # agent
            /\ agent'.cause # "KeyboardInterrupt") => agent'.pc = "collect"
       /\ (agent.pc = "collect" /\ agent'.pc = "send") =>
             agent'.seq = agent.seq + 1 /\ agent'.posts = 0
       /\ (agent.pc # "stopped" /\ agent'.pc = "stopped") =>
             \/ agent'.cause = "KeyboardInterrupt" /\ agent'.rc = 0
             \/ /\ agent.pc = "collect"
                /\ agent'.cause = "Exception" /\ agent'.rc = 1
      ]_vars

\* C26 amended: as above, except that run() ends with 1 on an exception
\* raised anywhere in the loop outside the try block of send_metrics: during
\* collection, in the configuration lookup of send_metrics when the server
\* url is missing, or in time.sleep when the interval is negative.  An
\* answer other than 200 and a connection error never end it.
LoopSurvivesFailedDelivery ==
    [][/\ (agent.pc = "posting" /\ agent' # agent
            /\ agent'.cause # "KeyboardInterrupt") =>
             /\ agent'.pc = "sleep" /\ agent'.rc = -1
             /\ agent'.result \in {"true", "false"}
             /\ agent'.result = "true" <=>
                   /\ response' = Response("receive_metrics", "a1", 0, 200)
                   /\ Len(tasks') = Len(tasks) + 1
       /\ agent'.posts <= 1
       /\ agent'.posts = agent.posts + 1 => agent'.sent_seq = agent.seq
       /\ (agent.pc = "sleep" /\ agent' # agent
            /\ agent'.cause # "KeyboardInterrupt") =>
             \/ agent'.pc = "collect"
             \/ agent.interval < 0 /\ agent'.pc = "stopped"
       /\ (agent.pc = "collect" /\ agent'.pc = "send") =>
             agent'.seq = agent.seq + 1 /\ agent'.posts = 0
       /\ (agent.pc # "stopped" /\ agent'.pc = "stopped") =>
             \/ agent'.cause = "KeyboardInterrupt" /\ agent'.rc = 0
             \/ /\ \/ agent.pc = "collect"
                   \/ agent.pc = "send" /\ agent.server_url = None
                   \/ agent.pc = "sleep" /\ agent.interval < 0
                /\ agent'.cause = "Exception" /\ agent'.rc = 1
      ]_vars

\* C26 witness: the delivery of the first snapshot failed (the server
\* answered 500 or 401 or could not be reached), and the loop has collected
\* the second snapshot and is posting it.
SecondSnapshotAfterFailure ==
    /\ agent.pc = "posting"
    /\ agent.seq = 2 /\ agent.sent_seq = 2 /\ agent.posts = 1
    /\ agent.result = "false"
    /\ agent.rc = -1

\* C20: check_thresholds compares against a concrete policy: a run for a
\* source without stored alert_config compares cpu_usage with the default
\* 80, a run after a successful update_agent_config with the stored
\* cpu_threshold, and a successful update stores all five fields.
PolicyAlwaysConcrete ==
    [][/\ Len(tasks') < Len(tasks) =>
            LET metrics == Val(check_run'.metrics)
                stored == agents_collection[metrics.agent_name].alert_config
                limit == IF stored = None THEN 80 ELSE Val(stored).cpu_threshold
                fires == /\ metrics.cpu_usage # None
                         /\ Val(metrics.cpu_usage) > limit
                added == (Len(alerts_collection) + 1)..Len(alerts_collection')
            IN /\ check_run'.status = "returned" =>
                     Len(check_run'.alerts_sent) = (IF fires THEN 1 ELSE 0)
               /\ ~fires => added = {}
               /\ \A i \in added : alerts_collection'[i].message.limit = limit
       /\ (Handled("update_agent_config") /\ response'.status_code = 200) =>
            LET stored == agents_collection'[response'.agent_name].alert_config
            IN /\ stored # None
               /\ DOMAIN Val(stored) =
                     {"cpu_threshold", "ram_threshold", "disk_threshold",
                      "service_alerts", "ssh_brute_force_alerts"}
      ]_vars

\* C20 witness: a snapshot with cpu 92 raised CPU_HIGH against the default
\* 80; after update_agent_config stored cpu_threshold 95 the next snapshot
\* with cpu 92 was evaluated without an alert.
StoredThresholdUsed ==
    /\ agents_collection["a1"].alert_config # None
    /\ Val(agents_collection["a1"].alert_config).cpu_threshold = 95
    /\ Len(alerts_collection) = 1
    /\ alerts_collection[1].message.limit = 80
    /\ check_run.status = "returned"
    /\ Val(check_run.metrics).cpu_usage = Some(92)
    /\ check_run.alerts_sent = <<>>
    /\ metrics_collection = 2 /\ tasks = <<>>

(***************************************************************************)
(* check_thresholds as a function of the snapshot and the stored policy     *)
(* (EvalSpec: the collection of alerts is empty before the run).            *)
(***************************************************************************)
Ran == check_run.status # "none"
Returned == check_run.status = "returned"
Snapshot == Val(check_run.metrics)

\* the thresholds and switches in force for the snapshot's source
Policy ==
    LET stored == agents_collection[Snapshot.agent_name].alert_config IN
    IF stored = <<>>
    THEN [cpu_threshold |-> 80, ram_threshold |-> 85, disk_threshold |-> 90,
          service_alerts |-> TRUE, ssh_brute_force_alerts |-> TRUE]
    ELSE stored[1]

\* the alerts of a kind the run reports in alerts_sent, and those it recorded
Sent(alert_type) ==
    {i \in 1..Len(check_run.alerts_sent) :
        check_run.alerts_sent[i].type = alert_type}

SentFor(alert_type, key) ==
    {i \in Sent(alert_type) : check_run.alerts_sent[i].key = key}

RecordedFor(alert_type, subject) ==
    {i \in AlertsOf(alert_type, Snapshot.agent_name) :
        alerts_collection[i].message.subject = subject}

Emitted(alert_type) ==
    Sent(alert_type) \cup AlertsOf(alert_type, Snapshot.agent_name)

\* the value a dict holds for a key, as a set (empty when the key is absent)
Lookup(dict, key) == {dict[i][2] : i \in {j \in 1..Len(dict) : dict[j][1] = key}}

\* C5: no alert is emitted for an absent (None) field, whatever the policy:
\* cpu_usage None gives no CPU_HIGH, ram_usage None no RAM_HIGH, disk_usage
\* None no DISK_HIGH, services None no SERVICE_DOWN, ssh_brute_force None no
\* SSH_BRUTE_FORCE.
AbsentFieldNeverAlerts ==
    Ran =>
       /\ Snapshot.cpu_usage = None => Emitted("CPU_HIGH") = {}
       /\ Snapshot.ram_usage = None => Emitted("RAM_HIGH") = {}
       /\ Snapshot.disk_usage = None => Emitted("DISK_HIGH") = {}
       /\ Snapshot.services = None => Emitted("SERVICE_DOWN") = {}
       /\ Snapshot.ssh_brute_force = None => Emitted("SSH_BRUTE_FORCE") = {}

\* C5 witness: a run returned for a snapshot with every field absent, under
\* the lowest stored thresholds, and emitted nothing.
AllAbsentRunReturned ==
    /\ Returned
    /\ Snapshot.cpu_usage = None /\ Snapshot.ram_usage = None
    /\ Snapshot.disk_usage = None /\ Snapshot.services = None
    /\ Snapshot.ssh_brute_force = None
    /\ Policy.cpu_threshold = 50
    /\ check_run.alerts_sent = <<>> /\ alerts_collection = <<>>

\* C6: disk alerts are per path: a run that returns has emitted exactly one
\* DISK_HIGH alert for each path whose usage is strictly greater than
\* disk_threshold and none for any other path.
DiskAlertPerPath ==
    Returned =>
       \A path \in Paths :
          LET over == /\ Snapshot.disk_usage # None
                      /\ \E usage \in Lookup(Snapshot.disk_usage[1], path) :
                            usage > Policy.disk_threshold
              n == IF over THEN 1 ELSE 0
          IN /\ Cardinality(SentFor("DISK_HIGH", path)) = n
             /\ Cardinality(RecordedFor("DISK_HIGH", path)) = n

\* C6 witness: disk {"/data": 95, "/backup": 40} under the default threshold
\* 90 gave exactly one DISK_HIGH alert, for /data.
DataOverBackupUnder ==
    /\ Returned
    /\ Snapshot.disk_usage = Some(<< <<"/data", 95>>, <<"/backup", 40>> >>)
    /\ agents_collection[Snapshot.agent_name].alert_config = None
    /\ Cardinality(Sent("DISK_HIGH")) = 1
    /\ Cardinality(SentFor("DISK_HIGH", "/data")) = 1

\* C7: the CPU and RAM comparisons are strict: a run that returns has emitted
\* one CPU_HIGH alert if cpu_usage is present and greater than cpu_threshold
\* and none otherwise (a value equal to the threshold emits nothing), and
\* likewise one RAM_HIGH alert or none.
CpuRamStrict ==
    Returned =>
       /\ Cardinality(Sent("CPU_HIGH")) =
             (IF /\ Snapshot.cpu_usage # None
                 /\ Snapshot.cpu_usage[1] > Policy.cpu_threshold
              THEN 1 ELSE 0)
       /\ Cardinality(Sent("RAM_HIGH")) =
             (IF /\ Snapshot.ram_usage # None
                 /\ Snapshot.ram_usage[1] > Policy.ram_threshold
              THEN 1 ELSE 0)
       /\ Cardinality(AlertsOf("CPU_HIGH", Snapshot.agent_name))
             = Cardinality(Sent("CPU_HIGH"))
       /\ Cardinality(AlertsOf("RAM_HIGH", Snapshot.agent_name))
             = Cardinality(Sent("RAM_HIGH"))

\* C7 witness: cpu 80 against the default threshold 80 emitted nothing while
\* ram 90 against the default threshold 85 emitted one RAM_HIGH alert.
CpuAtThresholdRamOver ==
    /\ Returned
    /\ agents_collection[Snapshot.agent_name].alert_config = None
    /\ Snapshot.cpu_usage = Some(80)
    /\ Snapshot.ram_usage = Some(90)
    /\ Sent("CPU_HIGH") = {}
    /\ Cardinality(Sent("RAM_HIGH")) = 1

\* C8: service alerts are gated by the policy: with service_alerts enabled a
\* run that returns has emitted exactly one SERVICE_DOWN alert for every
\* service whose status differs from "active" and none for an active one;
\* with service_alerts disabled it has emitted none.
ServiceAlertsGated ==
    Returned =>
       \A service \in Services :
          LET down == /\ Policy.service_alerts
                      /\ Snapshot.services # None
                      /\ \E status \in Lookup(Snapshot.services[1], service) :
                            status # "active"
              n == IF down THEN 1 ELSE 0
          IN /\ Cardinality(SentFor("SERVICE_DOWN", service)) = n
             /\ Cardinality(RecordedFor("SERVICE_DOWN", service)) = n

\* C8 witness: with service_alerts disabled, a snapshot with a service that
\* is not active was evaluated and no SERVICE_DOWN alert was emitted.
ServiceDownButDisabled ==
    /\ Returned
    /\ ~Policy.service_alerts
    /\ Snapshot.services # None
    /\ \E status \in Lookup(Snapshot.services[1], "nginx") : status = "inactive"
    /\ Emitted("SERVICE_DOWN") = {}

\* C9: intrusion alerts are gated by the policy and the flag: a run that
\* returns has emitted one SSH_BRUTE_FORCE alert if ssh_brute_force_alerts is
\* enabled, ssh_brute_force is present and its threshold_exceeded is true,
\* and none otherwise (flag disabled, threshold_exceeded false or missing).
IntrusionAlertGated ==
    Returned =>
       LET ssh == Snapshot.ssh_brute_force
           fires == /\ Policy.ssh_brute_force_alerts
                    /\ ssh # None
                    /\ "threshold_exceeded" \in DOMAIN ssh[1]
                    /\ ssh[1]["threshold_exceeded"] = TRUE
           n == IF fires THEN 1 ELSE 0
       IN /\ Cardinality(Sent("SSH_BRUTE_FORCE")) = n
          /\ Cardinality(AlertsOf("SSH_BRUTE_FORCE", Snapshot.agent_name)) = n

\* C9 witness: with ssh_brute_force_alerts enabled, a snapshot reporting 7
\* failed attempts but no threshold_exceeded was evaluated without an alert.
FailedAttemptsWithoutFlag ==
    /\ Returned
    /\ Policy.ssh_brute_force_alerts
    /\ Snapshot.ssh_brute_force = Some([failed_attempts |-> 7])
    /\ Emitted("SSH_BRUTE_FORCE") = {}

====
